---- MODULE Spec2Model ----
(***************************************************************************)
(* Model of the Tauri backend of elevation_manager: the credential store   *)
(* (AuthState.token), the poll lifecycle controller (PollingState and the  *)
(* start/stop commands) and the notification polling loop spawned by       *)
(* start_notification_polling.                                             *)
(*                                                                         *)
(* Granularity.  Foreground commands run as tasks of a multi-threaded      *)
(* tokio runtime (lib.rs: #[tokio::main]), so they interleave with the     *)
(* polling task at every step.  A command is split at every lock           *)
(* acquisition and at every network await.  The polling task is split at   *)
(* its suspension points (sleep, request in flight) and, inside one poll   *)
(* of the future, at the calls that take the token lock, because another   *)
(* thread can run between them.                                            *)
(*                                                                         *)
(* JoinHandle::abort() only marks the task as cancelled: a task that is    *)
(* suspended is dropped without running again, a task that is being polled *)
(* on another worker thread keeps running up to its next suspension point. *)
(***************************************************************************)
EXTENDS Integers, Sequences, FiniteSets, TLC

\* ---------------------------------------------------------------- bounds
NumCallers == 3
MaxTasks == 2
MaxToken == 1
MaxUnread == 3
MaxList == 2
MaxRounds == 7
MaxSessionToken == 2

\* ------------------------------------------------------ program constants
IdleSecs == 10
InitialBackoff == 10
MaxBackoff == 300
ErrorThreshold == 5
SuccessReset == 3
PollSecs == 30

Callers == 1..NumCallers
TaskIds == 1..MaxTasks
Tokens == 1..MaxToken
NoToken == 0
NoOwner == 0
NoTask == 0

VARIABLES
  token,       \* AuthState.token : Option<String>; NoToken models None
  tokenLock,   \* owner of the AuthState.token mutex: a caller, a task or NoOwner
  task_handle, \* PollingState.task_handle : Option<JoinHandle>; NoTask models None
  handleLock,  \* owner of the PollingState.task_handle mutex
  caller,      \* one record per foreground command slot
  engine,      \* one record per spawned polling task
  lastSet,     \* history: the token written by the most recently completed set
  hist,        \* history: per task, what the task did that an observer can see
  gateway      \* the ApiClient: its configuration and its Arc<Mutex<AuthState>>

vars == <<token, tokenLock, task_handle, handleLock, caller, engine, lastSet, hist,
          gateway>>

Min(a, b) == IF a <= b THEN a ELSE b

\* ------------------------------------------------------------ error texts
\* An error is the sequence of the text fragments format!() glues together.
AuthErrorText == "No valid authentication token found. Please log in"
CommandAuthErrorText == "No valid authentication token found. Please log in."
AuthPhrase == "No valid authentication token found"
TransportDetail == "error sending request"
RequestFailedText == "Request failed: "
CountFailedText == "Failed to retrieve notification count: "
ListFailedText == "Failed to retrieve notifications: "
\* Response bodies of the server are opaque texts; one of them contains the
\* phrase the polling loop looks for.
PlainBody == "body"
PhraseBody == "body quoting: No valid authentication token found"
Bodies == {PlainBody, PhraseBody}

\* str.contains(AuthPhrase) on one fragment
FragmentHasAuthPhrase(f) ==
  f \in {AuthErrorText, CommandAuthErrorText, AuthPhrase, PhraseBody}

\* e.contains("No valid authentication token found")
ContainsAuthPhrase(e) == \E i \in 1..Len(e) : FragmentHasAuthPhrase(e[i])

\* format!("Bearer {token}")
BearerFixed(tok) == <<"Bearer ", 1>>

Bearer(tok) == <<"Bearer ", tok>>

\* get_auth_header (utils.rs 7-16), the header read of the Tauri commands
CommandHeaderResult(tok) ==
  IF tok # NoToken
    THEN [ok |-> TRUE, val |-> Bearer(tok)]
    ELSE [ok |-> FALSE, val |-> <<CommandAuthErrorText>>]

\* get_auth_header_internal (utils.rs 18-25), the header read of the polling task
HeaderResultLenient(tok) == [ok |-> TRUE, val |-> Bearer(tok)]

HeaderResult(tok) ==
  IF tok # NoToken
    THEN [ok |-> TRUE, val |-> Bearer(tok)]
    ELSE [ok |-> FALSE, val |-> <<AuthErrorText>>]

NoResult == [ok |-> FALSE, val |-> <<>>]

\* Ok(())
OkUnit == [ok |-> TRUE, val |-> <<>>]

\* ----------------------------------------------------------- task records
Suspended == {"idle_sleep", "backoff_sleep", "steady_sleep", "count_wait", "list_wait"}
JustWoken == {"tick", "count_done", "list_done"}

\* let mut last_count = 0; error_count = 0; backoff_seconds = 10; consecutive_success = 0
NewEngine ==
  [pc |-> "tick", last_count |-> 0, error_count |-> 0,
   backoff_seconds |-> InitialBackoff, consecutive_success |-> 0,
   sleep |-> 0, aborted |-> FALSE,
   header |-> <<>>, resp |-> "none", body |-> PlainBody, unread |-> 0,
   list |-> <<>>]

DeadEngine == [NewEngine EXCEPT !.pc = "dead"]

\* events: the UI events of the current cycle; outcome: how the current (or
\* last) cycle went; stop_returned: a stop() that aborted this task has
\* returned; after_stop: the task sent a request or emitted an event after
\* that; streak, rounds, fails: while every count fetch of the task has failed
\* in transport, the backoff sleeps so far and the failed polls since the last
\* one; okrun: the successful cycles completed since the last cycle whose
\* count fetch failed or the last reset of the delay, whichever is later;
\* ec0: during a poll cycle, error_count as it was when the cycle began;
\* seen: the unread count of the latest count poll that succeeded and parsed;
\* inflight: the requests of the task that were sent and are not answered yet.
NewHist ==
  [events |-> <<>>, outcome |-> "none", stop_returned |-> FALSE,
   after_stop |-> FALSE, streak |-> TRUE, rounds |-> 0, fails |-> 0,
   okrun |-> 0, ec0 |-> 0, seen |-> 0, inflight |-> 0]

\* what came back for a request; nothing yet
NoAnswer == [kind |-> "none", status |-> 0, body |-> "body"]
\* a request a command has built: method, endpoint, absolute URL, Authorization
\* header, and the answer to it
NoRequest == [method |-> "none", endpoint |-> "", url |-> "", header |-> <<>>,
              answer |-> NoAnswer]

IdleCaller ==
  [pc |-> "idle", tok |-> NoToken, res |-> NoResult, task |-> NoTask,
   role |-> "none", req |-> NoRequest]

\* AppConfig::new: env::var("API_BASE_URL") or the default
DefaultBase == "http://localhost:3000"
OverrideBase == "https://api.example.org"
Bases == {DefaultBase, OverrideBase}

\* ApiClient::new(config, auth_state) over Arc::new(Mutex::new(AuthState::default())):
\* outer is the owner of the Mutex<AuthState>, inner the owner of the token
\* mutex inside it.
NewGateway(base) ==
  [api_base_url |-> base, token |-> NoToken, outer |-> NoOwner, inner |-> NoOwner]

Init ==
  /\ token = NoToken
  /\ tokenLock = NoOwner
  /\ task_handle = NoTask
  /\ handleLock = NoOwner
  /\ caller = [c \in Callers |-> IdleCaller]
  /\ engine = [t \in TaskIds |-> DeadEngine]
  /\ lastSet = NoToken
  /\ hist = [t \in TaskIds |-> NewHist]
  /\ gateway = NewGateway(DefaultBase)

\* The state after construction when the environment may set API_BASE_URL
InitEnv ==
  /\ token = NoToken
  /\ tokenLock = NoOwner
  /\ task_handle = NoTask
  /\ handleLock = NoOwner
  /\ caller = [c \in Callers |-> IdleCaller]
  /\ engine = [t \in TaskIds |-> DeadEngine]
  /\ lastSet = NoToken
  /\ hist = [t \in TaskIds |-> NewHist]
  /\ \E base \in Bases : gateway = NewGateway(base)

\* ------------------------------------------------------------------ locks
\* tokio::sync::Mutex: lock().await completes only while nobody owns the mutex.
TokenLockFreeAlways == TRUE

TokenLockFree == tokenLock = NoOwner

HandleLockFreeAlways == TRUE

HandleLockFree == handleLock = NoOwner

\* ------------------------------------------------- login (auth/login.rs)
\* AuthResponse { token, role }: the role is a text the server chooses
Roles == {"admin", "viewer"}

LoginFailures ==
  [kind : {"network_error", "remote_error", "bad_body"}, tok : {NoToken}, role : {"none"}]

\* the logins the polling loop runs beside: nothing but login's caller ever
\* looks at the role, one role is enough there
LoginOutcomes == LoginFailures \cup [kind : {"ok"}, tok : Tokens, role : {"admin"}]

\* the logins of a session: any of several tokens with any role
SessionTokens == 1..MaxSessionToken

SessionOutcomes == LoginFailures \cup [kind : {"ok"}, tok : SessionTokens, role : Roles]

\* client.post(login_url)...send(): the request is in flight
LoginSend(c) ==
  /\ caller[c].pc = "idle"
  /\ caller' = [caller EXCEPT ![c].pc = "login_wait"]
  /\ UNCHANGED <<gateway, token, tokenLock, task_handle, handleLock, engine, lastSet, hist>>

\* The response arrives.  A network error, a non-2xx status and a 2xx body
\* that does not parse return Err before the store is touched; a 2xx body
\* that parses goes on to state.token.lock().
LoginResponseClearsOnFailure(c, outcome) ==
  /\ caller[c].pc = "login_wait"
  /\ caller' = [caller EXCEPT ![c] =
       IF outcome.kind = "ok"
         THEN [IdleCaller EXCEPT !.pc = "login_lock", !.tok = outcome.tok,
                                 !.role = outcome.role]
         ELSE IdleCaller]
  /\ token' = IF outcome.kind = "ok" \/ ~TokenLockFree THEN token ELSE NoToken
  /\ UNCHANGED <<gateway, tokenLock, task_handle, handleLock, engine, lastSet, hist>>

LoginResponse(c, outcome) ==
  /\ caller[c].pc = "login_wait"
  /\ caller' = [caller EXCEPT ![c] =
       IF outcome.kind = "ok"
         THEN [IdleCaller EXCEPT !.pc = "login_lock", !.tok = outcome.tok,
                                 !.role = outcome.role]
         ELSE IdleCaller]
  /\ UNCHANGED <<gateway, token, tokenLock, task_handle, handleLock, engine, lastSet, hist>>

\* let mut token = state.token.lock().await;
LoginLock(c) ==
  /\ caller[c].pc = "login_lock"
  /\ TokenLockFree
  /\ tokenLock' = c
  /\ caller' = [caller EXCEPT ![c].pc = "login_store"]
  /\ UNCHANGED <<gateway, token, task_handle, handleLock, engine, lastSet, hist>>

\* the value login writes into the store
StoredTokenNone(tok) == NoToken

StoredTokenToggled(tok) == IF token = NoToken THEN tok ELSE NoToken

StoredToken(tok) == tok

\* Ok((body.token, body.role))
LoginResult(tok, role) == [ok |-> TRUE, val |-> <<tok, role>>]

\* *token = Some(body.token.clone()); Ok((body.token, body.role))
LoginStore(c) ==
  /\ caller[c].pc = "login_store"
  /\ token' = StoredToken(caller[c].tok)
  /\ caller' = [caller EXCEPT ![c].pc = "login_ret",
                              ![c].res = LoginResult(caller[c].tok, caller[c].role)]
  /\ UNCHANGED <<gateway, tokenLock, task_handle, handleLock, engine, lastSet, hist>>

\* the guard is dropped, the value goes back, and the set is complete
LoginReturn(c) ==
  /\ caller[c].pc = "login_ret"
  /\ tokenLock' = NoOwner
  /\ lastSet' = caller[c].tok
  /\ caller' = [caller EXCEPT ![c] = IdleCaller]
  /\ UNCHANGED <<gateway, token, task_handle, handleLock, engine, hist>>

\* set(None) of the credential store contract (logout/clear): under the lock
\* the token is replaced by None.
ClearToken ==
  /\ TokenLockFree
  /\ token # NoToken
  /\ token' = NoToken
  /\ lastSet' = NoToken
  /\ UNCHANGED <<gateway, tokenLock, task_handle, handleLock, caller, engine, hist>>

\* ------------------------------------------- header reads (utils.rs 7-16)
\* let token_guard = state.token.lock().await;
HeaderLock(c) ==
  /\ caller[c].pc = "idle"
  /\ TokenLockFree
  /\ tokenLock' = c
  /\ caller' = [caller EXCEPT ![c].pc = "hdr_read"]
  /\ UNCHANGED <<gateway, token, task_handle, handleLock, engine, lastSet, hist>>

\* if let Some(token) = &*token_guard { Ok(format!(...)) } else { Err(...) }
HeaderRead(c) ==
  /\ caller[c].pc = "hdr_read"
  /\ caller' = [caller EXCEPT ![c].pc = "hdr_ret", ![c].res = CommandHeaderResult(token)]
  /\ UNCHANGED <<gateway, token, tokenLock, task_handle, handleLock, engine, lastSet, hist>>

\* the guard is dropped when get_auth_header returns
HeaderReturn(c) ==
  /\ caller[c].pc = "hdr_ret"
  /\ tokenLock' = NoOwner
  /\ caller' = [caller EXCEPT ![c] = IdleCaller]
  /\ UNCHANGED <<gateway, token, task_handle, handleLock, engine, lastSet, hist>>

\* ------------- a foreground command that calls the backend itself
\* (commands/products.rs get_all_products and the commands like it)
\* let url = "http://localhost:3000/products".to_string();
CommandBase == "http://localhost:3000"
CommandEndpoint == "/products"

\* get_auth_header(&state).await? returned Err: the command returns it
CommandFailFast(c) ==
  /\ ~caller[c].res.ok
  /\ HeaderReturn(c)

\* get_auth_header returned Ok(header): the guard is dropped and
\* client.get(&url).header("Authorization", auth_header).send() goes out
CommandSend(c) ==
  /\ caller[c].pc = "hdr_ret"
  /\ caller[c].res.ok
  /\ tokenLock' = NoOwner
  /\ caller' = [caller EXCEPT ![c].pc = "cmd_wait",
                              ![c].req = [method |-> "GET", endpoint |-> CommandEndpoint,
                                          url |-> CommandBase \o CommandEndpoint,
                                          header |-> caller[c].res.val,
                                          answer |-> NoAnswer]]
  /\ UNCHANGED <<gateway, token, task_handle, handleLock, engine, lastSet, hist>>

\* the response (or the failure of send()) arrives and the command returns
CommandResponse(c) ==
  /\ caller[c].pc = "cmd_wait"
  /\ caller' = [caller EXCEPT ![c] = IdleCaller]
  /\ UNCHANGED <<gateway, token, tokenLock, task_handle, handleLock, engine, lastSet, hist>>

\* -------------------- get_user_reviews (commands/reviews.rs 498-564)
\* let auth_header = get_auth_header(&state).await?; returned Ok: the guard
\* of get_auth_header is dropped and the command goes on with the header
ReviewsHeaderDone(c) ==
  /\ caller[c].pc = "hdr_ret"
  /\ caller[c].res.ok
  /\ tokenLock' = NoOwner
  /\ caller' = [caller EXCEPT ![c].pc = "rv_lock",
                              ![c].req = [NoRequest EXCEPT !.header = caller[c].res.val]]
  /\ UNCHANGED <<gateway, token, task_handle, handleLock, engine, lastSet, hist>>

\* let token_guard = state.token.lock().await; (503)
ReviewsLock(c) ==
  /\ caller[c].pc = "rv_lock"
  /\ TokenLockFree
  /\ tokenLock' = c
  /\ caller' = [caller EXCEPT ![c].pc = "rv_check"]
  /\ UNCHANGED <<gateway, token, task_handle, handleLock, engine, lastSet, hist>>

ReviewsUserEndpoint == "/users/me"
ReviewsListEndpoint == "/reviews/user/{}"

\* if token_guard.is_none() { return Err(..) } (505-507); otherwise the
\* request for the user goes out (510-519).  token_guard is a named binding:
\* it lives to the end of the function.
ReviewsCheck(c) ==
  /\ caller[c].pc = "rv_check"
  /\ IF token = NoToken
       THEN /\ tokenLock' = NoOwner
            /\ caller' = [caller EXCEPT ![c] = IdleCaller]
       ELSE /\ tokenLock' = tokenLock
            /\ caller' = [caller EXCEPT
                 ![c].pc = "rv_user_wait",
                 ![c].req = [caller[c].req EXCEPT
                               !.method = "GET", !.endpoint = ReviewsUserEndpoint,
                               !.url = CommandBase \o ReviewsUserEndpoint]]
  /\ UNCHANGED <<gateway, token, task_handle, handleLock, engine, lastSet, hist>>

\* The answer about the user (514-532): on a failure the command returns and
\* the guard is dropped; otherwise the request for the reviews goes out
\* (539-548).
ReviewsUserResponse(c, ok) ==
  /\ caller[c].pc = "rv_user_wait"
  /\ IF ok
       THEN /\ tokenLock' = tokenLock
            /\ caller' = [caller EXCEPT
                 ![c].pc = "rv_list_wait",
                 ![c].req = [caller[c].req EXCEPT
                               !.endpoint = ReviewsListEndpoint,
                               !.url = CommandBase \o ReviewsListEndpoint]]
       ELSE /\ tokenLock' = NoOwner
            /\ caller' = [caller EXCEPT ![c] = IdleCaller]
  /\ UNCHANGED <<gateway, token, task_handle, handleLock, engine, lastSet, hist>>

\* The answer with the reviews (543-563): the command returns and
\* token_guard is dropped
ReviewsListResponse(c) ==
  /\ caller[c].pc = "rv_list_wait"
  /\ tokenLock' = NoOwner
  /\ caller' = [caller EXCEPT ![c] = IdleCaller]
  /\ UNCHANGED <<gateway, token, task_handle, handleLock, engine, lastSet, hist>>

\* ------------------------------ the gateway (services/api_client.rs)
\* The text of an error: format!() glues the fragments together.
RECURSIVE Text(_)
Text(frags) == IF frags = <<>> THEN "" ELSE Head(frags) \o Text(Tail(frags))

ReadFailedText == "Failed to read response: "
ReadDetail == "error decoding response body"
\* a body that repeats the text of a transport failure
EchoBody == "Request failed: error sending request"
GatewayBodies == {PlainBody, PhraseBody, EchoBody}

Methods == {"GET", "POST", "PUT", "DELETE", "MULTIPART"}
Endpoints == {"/taskorders", "/production/workflows"}
Statuses == {199, 200, 204, 299, 300, 404, 500}

\* What comes back for a request: no response at all (send() fails), or
\* a status with a body whose read succeeds or fails.
TransportFailure == [kind |-> "transport", status |-> 0, body |-> PlainBody]

GatewayResponses ==
  {TransportFailure}
    \cup [kind : {"answered", "unreadable"}, status : Statuses, body : GatewayBodies]

\* status.is_success()
IsSuccessBelow400(status) == status < 400

IsSuccess(status) == status >= 200 /\ status <= 299

\* ApiClient::handle_response (163-177)
HandleResponse(r) ==
  IF r.kind = "unreadable"
    THEN [ok |-> FALSE, val |-> <<ReadFailedText, ReadDetail>>]
    ELSE IF IsSuccess(r.status)
      THEN [ok |-> TRUE, val |-> <<r.body>>]
      ELSE [ok |-> FALSE, val |-> <<r.body>>]

\* the map_err on send() (129-132, 71-74)
SendError == [ok |-> FALSE, val |-> <<RequestFailedText, TransportDetail>>]

\* ApiClient::request and post_multipart from the call to the outer lock:
\* let auth_state = self.auth_state.lock().await;
GwLock(c, method, endpoint) ==
  /\ caller[c].pc = "idle"
  /\ gateway.outer = NoOwner
  /\ gateway' = [gateway EXCEPT !.outer = c]
  /\ caller' = [caller EXCEPT ![c].pc = "gw_read",
                              ![c].req = [NoRequest EXCEPT !.method = method,
                                                           !.endpoint = endpoint]]
  /\ UNCHANGED <<token, tokenLock, task_handle, handleLock, engine, lastSet, hist>>

\* format!("{}{}", self.config.api_base_url, endpoint)
Url(base, endpoint) == base \o endpoint

\* get_auth_header_internal(&*auth_state).await? and the end of the block:
\* both guards are dropped; without a token the request returns the error
\* here, with one the request is built and sent (112-129).
GwRead(c) ==
  /\ caller[c].pc = "gw_read"
  /\ gateway.inner = NoOwner
  /\ LET h == HeaderResult(gateway.token)
         req == caller[c].req
     IN caller' = [caller EXCEPT ![c] =
          IF h.ok
            THEN [caller[c] EXCEPT
                    !.pc = "gw_wait",
                    !.req = [req EXCEPT !.url = Url(gateway.api_base_url, req.endpoint),
                                        !.header = h.val]]
            ELSE [caller[c] EXCEPT !.pc = "gw_ret", !.res = h]]
  /\ gateway' = [gateway EXCEPT !.outer = NoOwner]
  /\ UNCHANGED <<token, tokenLock, task_handle, handleLock, engine, lastSet, hist>>

\* send().await completes, then handle_response (129-134)
GwResponse(c, r) ==
  /\ caller[c].pc = "gw_wait"
  /\ caller' = [caller EXCEPT ![c].pc = "gw_ret",
                              ![c].req = [caller[c].req EXCEPT !.answer = r],
                              ![c].res = IF r.kind = "transport"
                                           THEN SendError ELSE HandleResponse(r)]
  /\ UNCHANGED <<gateway, token, tokenLock, task_handle, handleLock, engine, lastSet, hist>>

\* Client::builder().timeout(api_timeout_seconds) (18-29): a send() that
\* is not answered in time fails like any other transport failure
GwTimeout(c) == GwResponse(c, TransportFailure)

\* the Result goes back to the command
GwReturn(c) ==
  /\ caller[c].pc = "gw_ret"
  /\ caller' = [caller EXCEPT ![c] = IdleCaller]
  /\ UNCHANGED <<gateway, token, tokenLock, task_handle, handleLock, engine, lastSet, hist>>

\* The order in which ApiClient::set_token takes its two locks (100-101):
\* self.auth_state.lock().await, then auth_state.token.lock().await
SetTokenOrderInnerFirst == <<"inner", "outer">>

SetTokenOrder == <<"outer", "inner">>

\* ApiClient::set_token (99-103): the outer lock ...
SetTokenLock(c, tok) ==
  /\ caller[c].pc = "idle"
  /\ gateway[SetTokenOrder[1]] = NoOwner
  /\ gateway' = [gateway EXCEPT ![SetTokenOrder[1]] = c]
  /\ caller' = [caller EXCEPT ![c].pc = "st_store", ![c].tok = tok]
  /\ UNCHANGED <<token, tokenLock, task_handle, handleLock, engine, lastSet, hist>>

\* ... then the token lock, the assignment, and both guards dropped
SetTokenStore(c) ==
  /\ caller[c].pc = "st_store"
  /\ gateway[SetTokenOrder[2]] = NoOwner
  /\ gateway' = [gateway EXCEPT !.token = caller[c].tok, ![SetTokenOrder[1]] = NoOwner]
  /\ caller' = [caller EXCEPT ![c] = IdleCaller]
  /\ UNCHANGED <<token, tokenLock, task_handle, handleLock, engine, lastSet, hist>>

\* ---------------------- start_notification_polling (notifications.rs 310)
Dead(t) == engine[t].pc = "dead"

FreeSlots == {t \in TaskIds : Dead(t)}

\* let mut handle_guard = polling_state.task_handle.lock().await;
StartLock(c) ==
  /\ caller[c].pc = "idle"
  /\ HandleLockFree
  /\ FreeSlots # {}
  /\ handleLock' = c
  /\ caller' = [caller EXCEPT ![c].pc = "start_check"]
  /\ UNCHANGED <<gateway, token, tokenLock, task_handle, engine, lastSet, hist>>

\* if handle_guard.is_some() { return Ok(()) }
AlreadyPollingNever(h) == FALSE

AlreadyPolling(h) == h # NoTask

\* The is_some() check, and tokio::spawn when it fails: the new task is
\* runnable from this moment, before its handle is stored.
StartCheck(c) ==
  /\ caller[c].pc = "start_check"
  /\ IF AlreadyPolling(task_handle)
       THEN /\ caller' = [caller EXCEPT ![c].pc = "start_ret", ![c].res = OkUnit]
            /\ UNCHANGED <<gateway, engine, hist>>
       ELSE /\ FreeSlots # {}
            /\ LET t == CHOOSE x \in FreeSlots : \A y \in FreeSlots : x <= y
               IN /\ engine' = [engine EXCEPT ![t] = NewEngine]
                  /\ hist' = [hist EXCEPT ![t] = NewHist]
                  /\ caller' = [caller EXCEPT ![c].pc = "start_store", ![c].task = t]
  /\ UNCHANGED <<gateway, token, tokenLock, task_handle, handleLock, lastSet>>

\* *handle_guard = Some(handle);
StartStore(c) ==
  /\ caller[c].pc = "start_store"
  /\ task_handle' = caller[c].task
  /\ caller' = [caller EXCEPT ![c].pc = "start_ret", ![c].res = OkUnit]
  /\ UNCHANGED <<gateway, token, tokenLock, handleLock, engine, lastSet, hist>>

\* Ok(()): the guard is dropped
StartReturn(c) ==
  /\ caller[c].pc = "start_ret"
  /\ handleLock' = NoOwner
  /\ caller' = [caller EXCEPT ![c] = IdleCaller]
  /\ UNCHANGED <<gateway, token, tokenLock, task_handle, engine, lastSet, hist>>

\* ----------------------- stop_notification_polling (notifications.rs 462)
\* let mut handle_guard = polling_state.task_handle.lock().await;
StopLock(c) ==
  /\ caller[c].pc = "idle"
  /\ HandleLockFree
  /\ handleLock' = c
  /\ caller' = [caller EXCEPT ![c].pc = "stop_take"]
  /\ UNCHANGED <<gateway, token, tokenLock, task_handle, engine, lastSet, hist>>

\* what handle_guard.take() leaves in the slot
HandleKept(h) == h

HandleTaken(h) == NoTask

\* handle.abort(): a suspended task is dropped by the runtime without running
\* again (its locals are destroyed); a task that is being polled is only
\* marked and runs on to its next suspension point.
Abort(e) == IF e.pc \in Suspended THEN DeadEngine ELSE [e EXCEPT !.aborted = TRUE]

\* if let Some(handle) = handle_guard.take() { handle.abort(); }
StopTake(c) ==
  /\ caller[c].pc = "stop_take"
  /\ task_handle' = HandleTaken(task_handle)
  /\ engine' = IF task_handle # NoTask /\ ~Dead(task_handle)
                 THEN [engine EXCEPT ![task_handle] = Abort(engine[task_handle])]
                 ELSE engine
  /\ hist' = IF task_handle # NoTask /\ engine[task_handle].pc \in Suspended
               THEN [hist EXCEPT ![task_handle] = NewHist]
               ELSE hist
  /\ caller' = [caller EXCEPT ![c].pc = "stop_ret", ![c].task = task_handle,
                              ![c].res = OkUnit]
  /\ UNCHANGED <<gateway, token, tokenLock, handleLock, lastSet>>

\* Ok(()): the guard is dropped; stop() has returned for the task it took
StopReturn(c) ==
  /\ caller[c].pc = "stop_ret"
  /\ handleLock' = NoOwner
  /\ hist' = IF caller[c].task # NoTask /\ ~Dead(caller[c].task)
               THEN [hist EXCEPT ![caller[c].task].stop_returned = TRUE]
               ELSE hist
  /\ caller' = [caller EXCEPT ![c] = IdleCaller]
  /\ UNCHANGED <<gateway, token, tokenLock, task_handle, engine, lastSet>>

\* ------------- the polling loop (notifications.rs 328-452), one per task t
Eng(t) == engine[t]

\* let should_poll = guard.is_some();
ShouldPoll(tok) == tok # NoToken

\* let state_clone = state.inner().clone() (325): AuthState is not Clone, so
\* the clone is a copy of the reference and the loop looks into the store
\* login writes; what the loop finds there when the store holds tok
StateCloneDetached(tok) == NoToken

StateClone(tok) == tok

\* if error_count > 5
TooManyErrorsNever(ec) == FALSE

TooManyErrorsAtThreshold(ec) == ec >= ErrorThreshold

TooManyErrors(ec) == ec > ErrorThreshold

\* backoff_seconds = (backoff_seconds * 2).min(300);
NextBackoffUncapped(b) == b * 2

NextBackoff(b) == Min(b * 2, MaxBackoff)

\* tokio::time::sleep(Duration::from_secs(10)) on the no-token branch
IdleSleepAsPoll == PollSecs

IdleSleep == IdleSecs

\* The Err(e) branch of the count fetch (440-446): the new error_count
CountAllErrors(ec, e) == ec + 1

CountError(ec, e) == IF ~ContainsAuthPhrase(e) THEN ec + 1 ELSE ec

\* history of the all-failures streak of a task
StreakBroken(h) == [h EXCEPT !.streak = FALSE, !.rounds = 0, !.fails = 0]

StreakFail(h) == IF h.streak THEN [h EXCEPT !.fails = h.fails + 1] ELSE h

StreakRound(h) ==
  IF h.streak /\ h.rounds < MaxRounds
    THEN [h EXCEPT !.rounds = h.rounds + 1]
    ELSE StreakBroken(h)

StreakResume(h) == IF h.streak THEN [h EXCEPT !.fails = 0] ELSE h

\* history of the successful cycles in a row: a cycle reached 424-433
RunSuccess(h) ==
  [h EXCEPT !.okrun = IF h.okrun + 1 >= SuccessReset THEN 0 ELSE h.okrun + 1]

\* history of the successful cycles in a row: the count fetch of a cycle
\* failed (435-446, counted)
RunFailed(h) == [h EXCEPT !.okrun = 0]

\* history of error_count at the start of the cycle: the cycle begins (357)
CycleBegins(h, ec) == [h EXCEPT !.ec0 = ec]

\* history of error_count at the start of the cycle: the cycle is over (450)
CycleOver(h) == [h EXCEPT !.ec0 = 0]

\* history of the count polls: one succeeded and parsed (358-360)
CountSeen(h, unread) == [h EXCEPT !.seen = unread]

\* history of a request sent or an event emitted
DidIO(h) == [h EXCEPT !.after_stop = h.after_stop \/ h.stop_returned]

\* history of the requests in flight: send() was called (93-96, 132-135)
Sent(h) == [h EXCEPT !.inflight = h.inflight + 1]

\* history of the requests in flight: send().await and text().await
\* completed (97-104, 136-143)
Answered(h) == [h EXCEPT !.inflight = h.inflight - 1]

\* The task is suspended in tokio::time::sleep(secs)
Sleeping(e, kind, secs) ==
  [e EXCEPT !.pc = kind, !.sleep = secs, !.header = <<>>, !.resp = "none",
            !.body = PlainBody, !.unread = 0, !.list = <<>>]

\* After a failed count fetch the match arm ends and the loop goes on to the
\* sleep at 450.
RetryNever(e) == DeadEngine

RetrySoon(e) == Sleeping(e, "steady_sleep", IdleSecs)

RetryLater(e) == Sleeping(e, "steady_sleep", PollSecs)

\* One step of task t ends in record e (history h).  A task that reaches a
\* suspension point after abort() is dropped there.
Commit(t, e, h) ==
  IF e.aborted /\ e.pc \in Suspended
    THEN /\ engine' = [engine EXCEPT ![t] = DeadEngine]
         /\ hist' = [hist EXCEPT ![t] =
              [StreakBroken(h) EXCEPT !.events = <<>>, !.outcome = "none", !.okrun = 0, !.ec0 = 0,
                                 !.seen = 0, !.inflight = 0]]
    ELSE /\ engine' = [engine EXCEPT ![t] = e]
         /\ hist' = [hist EXCEPT ![t] = IF e.pc = "steady_sleep" THEN CycleOver(h) ELSE h]

\* The owner of a lock the polling task t holds
TaskOwner(t) == NumCallers + t

\* drop(guard) (338): who owns the token lock when the token check is over
GuardKeptAcrossSleep(t) == TaskOwner(t)

GuardAfterCheck(t) == NoOwner

\* token_guard goes out of scope when get_auth_header_internal returns
\* (utils.rs 25): who owns the token lock when the header read is over
GuardKeptAcrossSend(t) == TaskOwner(t)

GuardAfterHeader(t) == NoOwner

\* Top of the loop (334-357): the token check, then the backoff check.
EngineTickBackoffFirst(t) ==
  /\ Eng(t).pc = "tick"
  /\ TokenLockFree
  /\ LET h == [hist[t] EXCEPT !.events = <<>>]
     IN IF TooManyErrors(Eng(t).error_count)
          THEN Commit(t, Sleeping(Eng(t), "backoff_sleep", Eng(t).backoff_seconds),
                      [StreakRound(h) EXCEPT !.outcome = "backoff"])
          ELSE IF ~ShouldPoll(StateClone(token))
            THEN Commit(t, Sleeping(Eng(t), "idle_sleep", IdleSleep),
                        [h EXCEPT !.outcome = "idle"])
            ELSE Commit(t, [Eng(t) EXCEPT !.pc = "fetch_count"],
                        [CycleBegins(h, Eng(t).error_count) EXCEPT !.outcome = "polling"])
  /\ tokenLock' = GuardAfterCheck(t)
  /\ UNCHANGED <<gateway, token, task_handle, handleLock, caller, lastSet>>

EngineTick(t) ==
  /\ Eng(t).pc = "tick"
  /\ TokenLockFree
  /\ LET h == [hist[t] EXCEPT !.events = <<>>]
     IN IF ~ShouldPoll(StateClone(token))
          THEN Commit(t, Sleeping(Eng(t), "idle_sleep", IdleSleep),
                      [h EXCEPT !.outcome = "idle"])
          ELSE IF TooManyErrors(Eng(t).error_count)
            THEN Commit(t, Sleeping(Eng(t), "backoff_sleep", Eng(t).backoff_seconds),
                        [StreakRound(h) EXCEPT !.outcome = "backoff"])
            ELSE Commit(t, [Eng(t) EXCEPT !.pc = "fetch_count"],
                        [CycleBegins(h, Eng(t).error_count) EXCEPT !.outcome = "polling"])
  /\ tokenLock' = GuardAfterCheck(t)
  /\ UNCHANGED <<gateway, token, task_handle, handleLock, caller, lastSet>>

\* sleep(10 s) elapsed; continue
IdleWake(t) ==
  /\ Eng(t).pc = "idle_sleep"
  /\ engine' = [engine EXCEPT ![t].pc = "tick", ![t].sleep = 0]
  /\ UNCHANGED <<gateway, token, tokenLock, task_handle, handleLock, caller, lastSet, hist>>

\* sleep(backoff_seconds) elapsed (350-353)
BackoffWakeKeepsErrors(t) ==
  /\ Eng(t).pc = "backoff_sleep"
  /\ engine' = [engine EXCEPT ![t].pc = "tick", ![t].sleep = 0,
                              ![t].backoff_seconds = NextBackoff(Eng(t).backoff_seconds)]
  /\ hist' = [hist EXCEPT ![t] = StreakResume(hist[t])]
  /\ UNCHANGED <<gateway, token, tokenLock, task_handle, handleLock, caller, lastSet>>

BackoffWake(t) ==
  /\ Eng(t).pc = "backoff_sleep"
  /\ engine' = [engine EXCEPT ![t].pc = "tick", ![t].sleep = 0,
                              ![t].backoff_seconds = NextBackoff(Eng(t).backoff_seconds),
                              ![t].error_count = 0]
  /\ hist' = [hist EXCEPT ![t] = StreakResume(hist[t])]
  /\ UNCHANGED <<gateway, token, tokenLock, task_handle, handleLock, caller, lastSet>>

\* sleep(30 s) at the end of a cycle elapsed (450)
SteadyWakeEarly(t) ==
  /\ Eng(t).pc \in {"steady_sleep", "count_wait"}
  /\ engine' = [engine EXCEPT ![t].pc = "tick", ![t].sleep = 0]
  /\ UNCHANGED <<gateway, token, tokenLock, task_handle, handleLock, caller, lastSet, hist>>

SteadyWake(t) ==
  /\ Eng(t).pc = "steady_sleep"
  /\ engine' = [engine EXCEPT ![t].pc = "tick", ![t].sleep = 0]
  /\ UNCHANGED <<gateway, token, tokenLock, task_handle, handleLock, caller, lastSet, hist>>

\* get_notification_count_internal up to send() (84-97): without a token the
\* header read fails and the Err branch of the loop runs at once; with one the
\* request goes out.
FetchCount(t) ==
  /\ Eng(t).pc = "fetch_count"
  /\ TokenLockFree
  /\ LET h == HeaderResult(StateClone(token))
     IN IF h.ok
          THEN Commit(t, [Eng(t) EXCEPT !.pc = "count_wait", !.header = h.val],
                      Sent(DidIO(hist[t])))
          ELSE Commit(t, RetryLater([Eng(t) EXCEPT !.error_count =
                                       CountError(Eng(t).error_count, h.val)]),
                      [StreakBroken(hist[t]) EXCEPT !.outcome = "unauthenticated"])
  /\ tokenLock' = GuardAfterHeader(t)
  /\ UNCHANGED <<gateway, token, task_handle, handleLock, caller, lastSet>>

\* What the server (or the network) answers to the count request
OkCountResponses == [resp : {"ok"}, body : {PlainBody}, unread : 0..MaxUnread]

CountResponses ==
  [resp : {"transport", "malformed"}, body : {PlainBody}, unread : {0}]
    \cup [resp : {"remote"}, body : Bodies, unread : {0}]
    \cup OkCountResponses

\* send().await and response.text().await complete (97-104)
CountResponse(t, r) ==
  /\ Eng(t).pc = "count_wait"
  /\ engine' = [engine EXCEPT ![t].pc = "count_done", ![t].resp = r.resp,
                              ![t].body = r.body, ![t].unread = r.unread]
  /\ hist' = [hist EXCEPT ![t] = Answered(hist[t])]
  /\ UNCHANGED <<gateway, token, tokenLock, task_handle, handleLock, caller, lastSet>>

\* if unread_count > last_count && last_count > 0
WantsListAnyGrowth(unread, last) == unread > last

WantsList(unread, last) == unread > last /\ last > 0

\* The end of a successful cycle (424-433) and the sleep after it (450)
FinishCycleCountsOn(e) ==
  Sleeping([e EXCEPT !.last_count = e.unread,
                     !.error_count = 0,
                     !.consecutive_success = e.consecutive_success + 1,
                     !.backoff_seconds =
                        IF e.consecutive_success + 1 >= SuccessReset
                          THEN InitialBackoff ELSE e.backoff_seconds],
           "steady_sleep", PollSecs)

FinishCycleKeepsCursor(e) ==
  Sleeping([e EXCEPT !.error_count = 0,
                     !.consecutive_success =
                        IF e.consecutive_success + 1 >= SuccessReset
                          THEN 0 ELSE e.consecutive_success + 1,
                     !.backoff_seconds =
                        IF e.consecutive_success + 1 >= SuccessReset
                          THEN InitialBackoff ELSE e.backoff_seconds],
           "steady_sleep", PollSecs)

FinishCycle(e) ==
  Sleeping([e EXCEPT !.last_count = e.unread,
                     !.error_count = 0,
                     !.consecutive_success =
                        IF e.consecutive_success + 1 >= SuccessReset
                          THEN 0 ELSE e.consecutive_success + 1,
                     !.backoff_seconds =
                        IF e.consecutive_success + 1 >= SuccessReset
                          THEN InitialBackoff ELSE e.backoff_seconds],
           "steady_sleep", PollSecs)

\* window_clone.emit("notification_count_updated", unread_count)
CountEventStale(unread) == <<"notification_count_updated", 0>>

CountEvent(unread) == <<"notification_count_updated", unread>>

\* The match on the result of the count fetch (357-447), up to the list
\* fetch.  emitOk: window.emit("notification_count_updated", ..) succeeded.
ProcessCount(t, emitOk) ==
  /\ Eng(t).pc = "count_done"
  /\ LET e == Eng(t)
         h == hist[t]
     IN CASE e.resp = "transport" ->
               /\ emitOk
               /\ Commit(t, RetryLater([e EXCEPT !.error_count =
                                CountError(e.error_count, <<RequestFailedText, TransportDetail>>)]),
                         [RunFailed(StreakFail(h)) EXCEPT !.outcome = "transport"])
          [] e.resp = "remote" ->
               /\ emitOk
               /\ Commit(t, RetryLater([e EXCEPT !.error_count =
                                CountError(e.error_count, <<CountFailedText, e.body>>)]),
                         [RunFailed(StreakBroken(h)) EXCEPT !.outcome = "remote"])
          [] e.resp = "malformed" ->
               /\ emitOk
               /\ Commit(t, RetryLater([e EXCEPT !.error_count = e.error_count + 1]),
                         [RunFailed(StreakBroken(h)) EXCEPT !.outcome = "malformed"])
          [] e.resp = "ok" ->
               LET counted == [e EXCEPT !.error_count =
                                 IF emitOk THEN e.error_count ELSE e.error_count + 1]
                   h2 == [CountSeen(DidIO(StreakBroken(h)), e.unread) EXCEPT
                            !.outcome = "ok", !.events =
                            Append(h.events, CountEvent(e.unread))]
               IN IF WantsList(e.unread, e.last_count)
                    THEN Commit(t, [counted EXCEPT !.pc = "fetch_list"], h2)
                    ELSE Commit(t, FinishCycle(counted), RunSuccess(h2))
  /\ UNCHANGED <<gateway, token, tokenLock, task_handle, handleLock, caller, lastSet>>

\* get_notifications_internal up to send() (123-136); a failed header read
\* takes the Err branch at 417-420 and the cycle is finished as usual.
FetchList(t) ==
  /\ Eng(t).pc = "fetch_list"
  /\ TokenLockFree
  /\ LET h == HeaderResult(StateClone(token))
     IN IF h.ok
          THEN Commit(t, [Eng(t) EXCEPT !.pc = "list_wait", !.header = h.val],
                      Sent(DidIO(hist[t])))
          ELSE Commit(t, FinishCycle([Eng(t) EXCEPT !.error_count = Eng(t).error_count + 1]),
                      [RunSuccess(hist[t]) EXCEPT !.outcome = "list_unauthenticated"])
  /\ tokenLock' = GuardAfterHeader(t)
  /\ UNCHANGED <<gateway, token, task_handle, handleLock, caller, lastSet>>

\* The server lists the notifications newest first; n of them: <<n, ..., 1>>
ListOf(n) == [i \in 1..n |-> n + 1 - i]

OkListResponses ==
  [resp : {"ok"}, body : {PlainBody}, list : {ListOf(n) : n \in 0..MaxList}]

ListResponses ==
  [resp : {"transport", "malformed"}, body : {PlainBody}, list : {<<>>}]
    \cup [resp : {"remote"}, body : Bodies, list : {<<>>}]
    \cup OkListResponses

\* send().await and response.text().await complete (136-143)
ListResponse(t, r) ==
  /\ Eng(t).pc = "list_wait"
  /\ engine' = [engine EXCEPT ![t].pc = "list_done", ![t].resp = r.resp,
                              ![t].body = r.body, ![t].list = r.list]
  /\ hist' = [hist EXCEPT ![t] = Answered(hist[t])]
  /\ UNCHANGED <<gateway, token, tokenLock, task_handle, handleLock, caller, lastSet>>

\* &notif_resp.data[..added.min(notif_resp.data.len())]
NewNotifsAll(list, unread, last) == list

NewNotifs(list, unread, last) == SubSeq(list, 1, Min(unread - last, Len(list)))

\* The match on the result of the list fetch (373-421), then 424-450.
ProcessList(t) ==
  /\ Eng(t).pc = "list_done"
  /\ LET e == Eng(t)
         h == hist[t]
         new == NewNotifs(e.list, e.unread, e.last_count)
     IN IF e.resp = "ok"
          THEN Commit(t, FinishCycle(e),
                      [RunSuccess(IF new # <<>> THEN DidIO(h) ELSE h) EXCEPT
                         !.outcome = "list_ok",
                         !.events = h.events \o
                            [i \in 1..Len(new) |-> <<"new_notification", new[i]>>]])
          ELSE Commit(t, FinishCycle([e EXCEPT !.error_count = e.error_count + 1]),
                      [RunSuccess(h) EXCEPT !.outcome = "list_failed"])
  /\ UNCHANGED <<gateway, token, tokenLock, task_handle, handleLock, caller, lastSet>>

\* The runtime drops a cancelled task that was woken but is not being polled
\* yet, or that waits for the token lock, without running it again.
TaskCancel(t) ==
  /\ Eng(t).aborted
  /\ \/ Eng(t).pc \in JustWoken
     \/ Eng(t).pc \in {"fetch_count", "fetch_list"} /\ ~TokenLockFree
  /\ engine' = [engine EXCEPT ![t] = DeadEngine]
  /\ hist' = [hist EXCEPT ![t] =
       [StreakBroken(hist[t]) EXCEPT !.events = <<>>, !.outcome = "none", !.okrun = 0, !.ec0 = 0,
                                 !.seen = 0, !.inflight = 0]]
  /\ UNCHANGED <<gateway, token, tokenLock, task_handle, handleLock, caller, lastSet>>

\* ---------------------------------------------------------- specification
LoginStep(c) ==
  \/ LoginSend(c)
  \/ \E outcome \in LoginOutcomes : LoginResponse(c, outcome)
  \/ LoginLock(c)
  \/ LoginStore(c)
  \/ LoginReturn(c)

HeaderStep(c) ==
  \/ HeaderLock(c)
  \/ HeaderRead(c)
  \/ HeaderReturn(c)

StartStep(c) ==
  \/ StartLock(c)
  \/ StartCheck(c)
  \/ StartStore(c)
  \/ StartReturn(c)

StopStep(c) ==
  \/ StopLock(c)
  \/ StopTake(c)
  \/ StopReturn(c)

\* The loop between its suspension points
LoopStep(t) ==
  \/ EngineTick(t)
  \/ IdleWake(t)
  \/ SteadyWake(t)
  \/ FetchCount(t)
  \/ \E emitOk \in BOOLEAN : ProcessCount(t, emitOk)
  \/ FetchList(t)
  \/ ProcessList(t)

\* The polling loop against a server that may fail, started once
Next ==
  \/ LoginStep(1)
  \/ StartStep(1)
  \/ \E t \in TaskIds : LoopStep(t)
  \/ \E t \in TaskIds : BackoffWake(t)
  \/ \E t \in TaskIds, r \in CountResponses : CountResponse(t, r)
  \/ \E t \in TaskIds, r \in ListResponses : ListResponse(t, r)

Spec == Init /\ [][Next]_vars

\* The credential store under concurrent logins and header reads
NextStore ==
  \/ \E c \in Callers : LoginStep(c)
  \/ \E c \in Callers : HeaderStep(c)

SpecStore == Init /\ [][NextStore]_vars

\* The credential stores through a session in which the server hands out
\* different tokens and roles: logins and header reads of two commands, and
\* the gateway with its own store
NextSession ==
  \/ \E c \in {1, 2} : LoginSend(c)
  \/ \E c \in {1, 2}, outcome \in SessionOutcomes : LoginResponse(c, outcome)
  \/ \E c \in {1, 2} : LoginLock(c)
  \/ \E c \in {1, 2} : LoginStore(c)
  \/ \E c \in {1, 2} : LoginReturn(c)
  \/ \E c \in {1, 2} : HeaderStep(c)
  \/ \E tok \in SessionTokens : SetTokenLock(3, tok)
  \/ SetTokenStore(3)
  \/ \E method \in {"GET", "MULTIPART"} : GwLock(3, method, "/taskorders")
  \/ GwRead(3)
  \/ GwResponse(3, TransportFailure)
  \/ GwReturn(3)

SpecSession == Init /\ [][NextSession]_vars

\* The lifecycle controller under concurrent start() and stop(); nobody
\* logs in, so the loop only idles
NextLifecycle ==
  \/ \E c \in Callers : StartStep(c)
  \/ \E c \in Callers : StopStep(c)
  \/ \E t \in TaskIds : EngineTick(t)
  \/ \E t \in TaskIds : IdleWake(t)
  \/ \E t \in TaskIds : TaskCancel(t)

SpecLifecycle == Init /\ [][NextLifecycle]_vars

\* start() and stop() around a polling loop whose server answers every request
NextStop ==
  \/ LoginStep(1)
  \/ StartStep(1)
  \/ StopStep(1)
  \/ \E t \in TaskIds : LoopStep(t)
  \/ \E t \in TaskIds, r \in OkCountResponses : CountResponse(t, r)
  \/ \E t \in TaskIds, r \in OkListResponses : ListResponse(t, r)
  \/ \E t \in TaskIds : TaskCancel(t)

SpecStop == Init /\ [][NextStop]_vars

\* The state after a start() has returned and before the spawned loop has
\* run, with or without a login before it
InitPolling ==
  /\ token \in {NoToken, 1}
  /\ tokenLock = NoOwner
  /\ task_handle = 1
  /\ handleLock = NoOwner
  /\ caller = [c \in Callers |-> IdleCaller]
  /\ engine = [t \in TaskIds |-> IF t = 1 THEN NewEngine ELSE DeadEngine]
  /\ lastSet = token
  /\ hist = [t \in TaskIds |-> NewHist]
  /\ gateway = NewGateway(DefaultBase)

\* logins that succeed, with a token that may differ from the stored one
RenewalOutcomes == [kind : {"ok"}, tok : SessionTokens, role : {"admin"}]

TransportCountResponses == [resp : {"transport"}, body : {PlainBody}, unread : {0}]

\* One running loop, against a server that may fail, logins that replace
\* the token, and a stop() that can come at any moment
NextAbort ==
  \/ LoginSend(2)
  \/ \E outcome \in RenewalOutcomes : LoginResponse(2, outcome)
  \/ LoginLock(2)
  \/ LoginStore(2)
  \/ LoginReturn(2)
  \/ StopStep(1)
  \/ \E t \in TaskIds : LoopStep(t)
  \/ \E t \in TaskIds : BackoffWake(t)
  \/ \E t \in TaskIds, r \in TransportCountResponses \cup OkCountResponses :
       CountResponse(t, r)
  \/ \E t \in TaskIds, r \in OkListResponses : ListResponse(t, r)
  \/ \E t \in TaskIds : TaskCancel(t)

SpecAbort == InitPolling /\ [][NextAbort]_vars

\* A loop that runs, and a backend that from now on accepts every request
\* and never answers.  The clients
\* made by Client::new() (login.rs 39, notifications.rs 85 and 124) have no
\* timeout, so nothing ends their requests; the gateway's client has one.
NextSilent ==
  \/ LoginSend(1)
  \/ \E tok \in Tokens : SetTokenLock(2, tok)
  \/ SetTokenStore(2)
  \/ GwLock(3, "GET", "/taskorders")
  \/ GwRead(3)
  \/ GwTimeout(3)
  \/ GwReturn(3)
  \/ \E t \in TaskIds : EngineTick(t)
  \/ \E t \in TaskIds : IdleWake(t)
  \/ \E t \in TaskIds : FetchCount(t)

\* every step of the running program is taken in the end, and a timer that
\* was set fires
SpecSilent ==
  /\ InitPolling
  /\ [][NextSilent]_vars
  /\ WF_vars(GwRead(3)) /\ WF_vars(GwTimeout(3)) /\ WF_vars(GwReturn(3))
  /\ WF_vars(SetTokenStore(2))
  /\ \A t \in TaskIds :
       WF_vars(EngineTick(t)) /\ WF_vars(IdleWake(t)) /\ WF_vars(FetchCount(t))

\* The polling loop when the store can also be cleared
NextLogout ==
  \/ Next
  \/ ClearToken

SpecLogout == Init /\ [][NextLogout]_vars

GatewayStep(c) ==
  \/ \E method \in Methods, endpoint \in Endpoints : GwLock(c, method, endpoint)
  \/ GwRead(c)
  \/ \E r \in GatewayResponses : GwResponse(c, r)
  \/ GwReturn(c)

SetTokenStep(c) ==
  \/ \E tok \in Tokens : SetTokenLock(c, tok)
  \/ SetTokenStore(c)

\* The literal URLs of login (login.rs 40) and of the two polling fetches
\* (notifications.rs 86, 125)
LoginUrl == "http://localhost:3000/auth/login"
CountUrl == "http://localhost:3000/notifications/count"
ListUrl == "http://localhost:3000/notifications?include_dismissed=false"

\* The requests in flight, each as the URL it was sent to and the relative
\* path it is for
InFlight ==
  {[url |-> caller[c].req.url, path |-> caller[c].req.endpoint] :
     c \in {c \in Callers : caller[c].pc \in {"gw_wait", "cmd_wait"}}}
  \cup {[url |-> LoginUrl, path |-> "/auth/login"] :
           c \in {c \in Callers : caller[c].pc = "login_wait"}}
  \cup {[url |-> CountUrl, path |-> "/notifications/count"] :
           t \in {t \in TaskIds : engine[t].pc = "count_wait"}}
  \cup {[url |-> ListUrl, path |-> "/notifications?include_dismissed=false"] :
           t \in {t \in TaskIds : engine[t].pc = "list_wait"}}

\* The ApiClient as a component: requests of every kind and set_token, which
\* no command of the application calls
NextGateway ==
  \/ GatewayStep(1)
  \/ SetTokenStep(2)

SpecGateway == Init /\ [][NextGateway]_vars

CommandStep(c) ==
  \/ HeaderLock(c)
  \/ HeaderRead(c)
  \/ CommandFailFast(c)
  \/ CommandSend(c)
  \/ CommandResponse(c)

ReviewsStep(c) ==
  \/ HeaderLock(c)
  \/ HeaderRead(c)
  \/ CommandFailFast(c)
  \/ ReviewsHeaderDone(c)
  \/ ReviewsLock(c)
  \/ ReviewsCheck(c)
  \/ \E ok \in BOOLEAN : ReviewsUserResponse(c, ok)
  \/ ReviewsListResponse(c)

\* The foreground commands beside login: get_user_reviews, a command like
\* get_all_products, and a gateway request
NextForeground ==
  \/ LoginStep(1)
  \/ ReviewsStep(2)
  \/ CommandStep(3)
  \/ SetTokenStep(1)
  \/ GwLock(3, "GET", "/taskorders")
  \/ GwRead(3)
  \/ GwResponse(3, TransportFailure)
  \/ GwReturn(3)

SpecForeground == Init /\ [][NextForeground]_vars

\* What the code under src/ can do to the two credential stores while the
\* loop runs: login, set_token, the readers, start() and the loop
NextWriters ==
  \/ LoginStep(1)
  \/ StartStep(1)
  \/ CommandStep(2)
  \/ SetTokenStep(2)
  \/ GwLock(3, "GET", "/taskorders")
  \/ GwRead(3)
  \/ GwResponse(3, TransportFailure)
  \/ GwReturn(3)
  \/ \E t \in TaskIds : LoopStep(t)
  \/ \E t \in TaskIds, r \in OkCountResponses : CountResponse(t, r)
  \/ \E t \in TaskIds, r \in OkListResponses : ListResponse(t, r)

SpecWriters == Init /\ [][NextWriters]_vars

\* --------------- manual_refresh_notifications (notifications.rs 478-533)
\* last_count and the other counters are locals of the spawned loop
\* (328-333), and manual_refresh_notifications is given the window and the
\* AuthState only: what last_count of a loop is once a refresh has seen
\* unread
CursorSharedWithRefresh(last, unread) == unread

CursorAfterRefresh(last, unread) == last

\* get_notification_count_internal(&state) up to send() (485, 84-97)
RefreshFetchCount(c) ==
  /\ caller[c].pc = "idle"
  /\ TokenLockFree
  /\ LET h == HeaderResult(token)
     IN caller' = [caller EXCEPT ![c] =
          IF h.ok
            THEN [IdleCaller EXCEPT !.pc = "mr_count_wait",
                                    !.req = [NoRequest EXCEPT !.method = "GET",
                                                              !.url = CountUrl,
                                                              !.header = h.val]]
            ELSE IdleCaller]
  /\ UNCHANGED <<gateway, token, tokenLock, task_handle, handleLock, engine, lastSet, hist>>

\* The count response (485-493): a failure returns Err; a count that parses
\* is emitted and the list is fetched whatever the count is
RefreshCountResponse(c, r) ==
  /\ caller[c].pc = "mr_count_wait"
  /\ caller' = [caller EXCEPT ![c] =
       IF r.resp = "ok"
         THEN [IdleCaller EXCEPT !.pc = "mr_fetch_list",
                                 !.res = [ok |-> TRUE, val |-> <<CountEvent(r.unread)>>]]
         ELSE IdleCaller]
  /\ engine' = [t \in TaskIds |->
                  [engine[t] EXCEPT !.last_count =
                     IF r.resp = "ok" THEN CursorAfterRefresh(@, r.unread) ELSE @]]
  /\ UNCHANGED <<gateway, token, tokenLock, task_handle, handleLock, lastSet, hist>>

\* get_notifications_internal(&state) up to send() (496, 123-136)
RefreshFetchList(c) ==
  /\ caller[c].pc = "mr_fetch_list"
  /\ TokenLockFree
  /\ LET h == HeaderResult(token)
     IN caller' = [caller EXCEPT ![c] =
          IF h.ok
            THEN [caller[c] EXCEPT !.pc = "mr_list_wait",
                                   !.req = [NoRequest EXCEPT !.method = "GET",
                                                             !.url = ListUrl,
                                                             !.header = h.val]]
            ELSE IdleCaller]
  /\ UNCHANGED <<gateway, token, tokenLock, task_handle, handleLock, engine, lastSet, hist>>

\* The list response (496-519): emit("notifications_refreshed", ..) on
\* success, and the command returns
RefreshListResponse(c, r) ==
  /\ caller[c].pc = "mr_list_wait"
  /\ caller' = [caller EXCEPT ![c] = IdleCaller]
  /\ UNCHANGED <<gateway, token, tokenLock, task_handle, handleLock, engine, lastSet, hist>>

RefreshStep(c) ==
  \/ RefreshFetchCount(c)
  \/ \E r \in CountResponses : RefreshCountResponse(c, r)
  \/ RefreshFetchList(c)
  \/ \E r \in ListResponses : RefreshListResponse(c, r)

\* The loop against a server that answers, with manual refreshes at any
\* moment
NextRefresh ==
  \/ LoginStep(1)
  \/ StartStep(1)
  \/ RefreshStep(2)
  \/ \E t \in TaskIds : LoopStep(t)
  \/ \E t \in TaskIds, r \in OkCountResponses : CountResponse(t, r)
  \/ \E t \in TaskIds, r \in OkListResponses : ListResponse(t, r)

SpecRefresh == Init /\ [][NextRefresh]_vars

\* Every operation that takes a lock, side by side: login and start() from
\* one caller, stop() and ApiClient::set_token from a second, gateway
\* requests (with their header read) from a third, and the loop, which reads
\* the header for each of its requests, against a server that answers
NextLocks ==
  \/ LoginStep(1)
  \/ StartStep(1)
  \/ StopStep(2)
  \/ SetTokenStep(2)
  \/ GwLock(3, "GET", "/taskorders")
  \/ GwRead(3)
  \/ GwTimeout(3)
  \/ GwReturn(3)
  \/ \E t \in TaskIds : LoopStep(t)
  \/ \E t \in TaskIds, r \in {x \in OkCountResponses : x.unread \in 1..2} : CountResponse(t, r)
  \/ \E t \in TaskIds, r \in {x \in OkListResponses : Len(x.list) = 1} : ListResponse(t, r)
  \/ \E t \in TaskIds : TaskCancel(t)

SpecLocks == Init /\ [][NextLocks]_vars

\* Every authenticated operation side by side: login, the clearing of the
\* store, a foreground command, a gateway request, set_token, and the polling
\* loop against a server that answers
NextAuth ==
  \/ LoginStep(1)
  \/ ClearToken
  \/ StartStep(1)
  \/ CommandStep(2)
  \/ SetTokenStep(2)
  \/ GwLock(3, "GET", "/taskorders")
  \/ GwLock(3, "MULTIPART", "/taskorders")
  \/ GwRead(3)
  \/ GwResponse(3, TransportFailure)
  \/ GwReturn(3)
  \/ \E t \in TaskIds : LoopStep(t)
  \/ \E t \in TaskIds, r \in OkCountResponses : CountResponse(t, r)
  \/ \E t \in TaskIds, r \in OkListResponses : ListResponse(t, r)

SpecAuth == InitEnv /\ [][NextAuth]_vars

\* The polling loop of Spec when every step that can be taken is taken: the
\* runtime polls a task that is ready, every sleep elapses, every request is
\* answered, and a login that holds the token lock (a fair, first-come
\* tokio Mutex) stores and returns.
FairLoop(t) ==
  /\ SF_vars(LoopStep(t))
  /\ WF_vars(BackoffWake(t))
  /\ WF_vars(\E r \in CountResponses : CountResponse(t, r))
  /\ WF_vars(\E r \in ListResponses : ListResponse(t, r))

SpecLive ==
  /\ Spec
  /\ WF_vars(LoginStore(1) \/ LoginReturn(1))
  /\ \A t \in TaskIds : FairLoop(t)

\* ------------------------------------------------------------------ claims
\* A task is alive from tokio::spawn until abort() cancels it.
Live(t) == engine[t].pc # "dead" /\ ~engine[t].aborted

LiveTasks == {t \in TaskIds : Live(t)}

\* the counters of the loop
Counters(e) == <<e.last_count, e.error_count, e.backoff_seconds, e.consecutive_success>>

\* C1: whatever logins and header reads interleave, a header read returns the
\* Unauthenticated error exactly when the most recently completed set stored
\* no token (none has completed yet); otherwise it succeeds.
C1_HeaderFollowsLastSet ==
  \A c \in Callers : caller[c].pc = "hdr_ret" =>
    /\ ~caller[c].res.ok <=> lastSet = NoToken
    /\ ~caller[c].res.ok => ContainsAuthPhrase(caller[c].res.val)

\* a header read that succeeded after a completed login while another login
\* waits for the lock
C1_Witness ==
  \E c, d \in Callers :
    /\ caller[c].pc = "hdr_ret"
    /\ caller[c].res.ok
    /\ lastSet # NoToken
    /\ caller[d].pc = "login_lock"

C3_StartIdempotent ==
  [][\A c \in Callers :
       /\ (caller[c].pc = "start_check" /\ caller'[c].pc # "start_check"
             /\ task_handle # NoTask) =>
            /\ caller'[c].pc = "start_ret"
            /\ caller'[c].res.ok
            /\ caller'[c].task = NoTask
            /\ engine' = engine
            /\ task_handle' = task_handle
       /\ (caller[c].pc = "start_ret" /\ caller'[c].pc # "start_ret"
             /\ caller[c].task = NoTask) =>
            /\ engine' = engine
            /\ task_handle' = task_handle]_vars

\* a second start() is about to return, having spawned nothing, while the
\* task of the first is alive
C3_Witness ==
  \E c \in Callers :
    /\ caller[c].pc = "start_ret"
    /\ caller[c].task = NoTask
    /\ caller[c].res.ok
    /\ task_handle # NoTask
    /\ LiveTasks = {task_handle}

\* C4: stop() returns Ok in every case; with a handle it cancels that task and
\* empties the slot, without one it changes nothing; the slot is empty when
\* stop() returns, and a start() that finds it empty spawns a fresh task.
C4_StopClears ==
  [][\A c \in Callers :
       /\ (caller[c].pc = "stop_take" /\ caller'[c].pc # "stop_take") =>
            /\ caller'[c].pc = "stop_ret"
            /\ caller'[c].res.ok
            /\ task_handle' = NoTask
            /\ task_handle # NoTask =>
                 engine'[task_handle].pc = "dead" \/ engine'[task_handle].aborted
            /\ task_handle = NoTask => engine' = engine
       /\ (caller[c].pc = "stop_ret" /\ caller'[c].pc # "stop_ret") =>
            /\ task_handle = NoTask
            /\ task_handle' = NoTask
            /\ engine' = engine
       /\ (caller[c].pc = "start_check" /\ caller'[c].pc # "start_check"
             /\ task_handle = NoTask) =>
            \E t \in TaskIds :
              /\ Dead(t)
              /\ engine'[t] = NewEngine
              /\ caller'[c].task = t]_vars

\* a stop() that took a handle is about to return: the slot is empty and the
\* task is cancelled
C4_Witness ==
  \E c \in Callers :
    /\ caller[c].pc = "stop_ret"
    /\ caller[c].task # NoTask
    /\ caller[c].res.ok
    /\ task_handle = NoTask
    /\ ~Live(caller[c].task)

\* C5: once the stop() that cancelled a loop has returned, the loop sends no
\* request and emits no event.
C5_NoIOAfterStop == \A t \in TaskIds : ~hist[t].after_stop

\* C6: a tick that finds no token sends nothing, sleeps 10 s and comes back
\* to the token check, with error_count, backoff_seconds, consecutive_success
\* and last_count as they were.
C6_IdleTick ==
  [][\A t \in TaskIds :
       /\ (engine[t].pc = "tick" /\ engine'[t].pc # "tick" /\ token = NoToken) =>
            /\ engine'[t].pc = "idle_sleep"
            /\ engine'[t].sleep = 10
            /\ engine'[t].header = <<>>
            /\ Counters(engine'[t]) = Counters(engine[t])
       /\ (engine[t].pc = "idle_sleep" /\ engine'[t].pc # "idle_sleep") =>
            /\ engine'[t].pc = "tick"
            /\ Counters(engine'[t]) = Counters(engine[t])]_vars

\* the loop idles with counters that earlier polls have moved
C6_Witness ==
  \E t \in TaskIds :
    /\ engine[t].pc = "idle_sleep"
    /\ engine[t].sleep = 10
    /\ token = NoToken
    /\ engine[t].error_count > 0
    /\ engine[t].backoff_seconds > 10
    /\ engine[t].last_count > 0

\* C7: when the token is gone by the time the count fetch builds its header,
\* the fetch fails without a request and error_count stays as it was.
C7_LogoutRaceNotCounted ==
  [][\A t \in TaskIds :
       (engine[t].pc = "fetch_count" /\ engine'[t].pc # "fetch_count"
          /\ token = NoToken) =>
         /\ engine'[t].pc = "steady_sleep"
         /\ engine'[t].header = <<>>
         /\ hist'[t].outcome = "unauthenticated"
         /\ Counters(engine'[t]) = Counters(engine[t])]_vars

\* the loop sleeps after such a cycle, its earlier errors still counted
C7_Witness ==
  \E t \in TaskIds :
    /\ engine[t].pc = "steady_sleep"
    /\ hist[t].outcome = "unauthenticated"
    /\ engine[t].error_count > 0

\* C8: with a token, a tick goes on to the count poll only if error_count <= 5;
\* with error_count > 5 it sends nothing, sleeps backoff_seconds, and then
\* sets backoff_seconds to min(2 * backoff_seconds, 300) and error_count to 0.
C8_BackoffBranch ==
  [][\A t \in TaskIds :
       /\ (engine[t].pc = "tick" /\ engine'[t].pc # "tick" /\ token # NoToken) =>
            /\ Counters(engine'[t]) = Counters(engine[t])
            /\ engine'[t].header = <<>>
            /\ IF engine[t].error_count <= 5
                 THEN engine'[t].pc = "fetch_count"
                 ELSE /\ engine'[t].pc = "backoff_sleep"
                      /\ engine'[t].sleep = engine[t].backoff_seconds
       /\ (engine[t].pc # "count_wait" /\ engine'[t].pc = "count_wait") =>
            engine[t].error_count <= 5
       /\ (engine[t].pc = "backoff_sleep" /\ engine'[t].pc # "backoff_sleep") =>
            /\ engine'[t].pc = "tick"
            /\ engine'[t].backoff_seconds = Min(2 * engine[t].backoff_seconds, 300)
            /\ engine'[t].error_count = 0
            /\ engine'[t].last_count = engine[t].last_count
            /\ engine'[t].consecutive_success = engine[t].consecutive_success]_vars

\* the loop is back at the token check after its first backoff sleep
C8_Witness ==
  \E t \in TaskIds :
    /\ engine[t].pc = "tick"
    /\ hist[t].outcome = "backoff"
    /\ engine[t].backoff_seconds = 20
    /\ engine[t].error_count = 0

ExpectedSleeps == <<10, 20, 40, 80, 160, 300>>

ExpectedSleep(k) == IF k <= Len(ExpectedSleeps) THEN ExpectedSleeps[k] ELSE 300

\* C10: while every count fetch of a loop has failed in transport, the loop
\* polls 6 times, then sleeps; the k-th such sleep lasts 10, 20, 40, 80, 160,
\* 300, 300, ... seconds, and 6 failed polls lie between two sleeps.
C10_AllFailuresSchedule ==
  \A t \in TaskIds :
    (engine[t].pc # "dead" /\ hist[t].streak) =>
      /\ hist[t].fails <= 6
      /\ engine[t].pc \in {"fetch_count", "count_wait", "count_done"} => hist[t].fails < 6
      /\ engine[t].pc = "backoff_sleep" =>
           /\ hist[t].fails = 6
           /\ hist[t].rounds >= 1
           /\ engine[t].sleep = ExpectedSleep(hist[t].rounds)

\* the seventh backoff sleep in a row
C10_Witness ==
  \E t \in TaskIds :
    /\ hist[t].streak
    /\ engine[t].pc = "backoff_sleep"
    /\ hist[t].rounds = 7
    /\ engine[t].sleep = 300

\* a successful cycle of task t ends in this step
CycleSucceeds(t) ==
  /\ \/ engine[t].pc = "count_done" /\ engine[t].resp = "ok"
     \/ engine[t].pc \in {"fetch_list", "list_done"}
  /\ engine'[t].pc = "steady_sleep"

\* C11: a successful cycle sets backoff_seconds to 10 and consecutive_success
\* to 0 exactly when it is the third successful cycle in a row, no cycle with
\* a failed count fetch having come between the three.
C11_ResetOnlyAfterThreeInARow ==
  [][\A t \in TaskIds :
       CycleSucceeds(t) =>
         /\ engine'[t].consecutive_success = 0 => hist[t].okrun = 2
         /\ hist[t].okrun = 2 =>
              /\ engine'[t].consecutive_success = 0
              /\ engine'[t].backoff_seconds = 10]_vars

\* the count fetch of task t has failed and the cycle ends in this step
CountFetchFails(t) ==
  /\ engine[t].pc = "count_done"
  /\ engine[t].resp \in {"transport", "remote", "malformed"}
  /\ engine'[t].pc = "steady_sleep"

\* C12: a count fetch that fails in transport, by a non-2xx status or by a
\* body that does not parse adds exactly 1 to error_count and leaves
\* last_count and backoff_seconds alone; a cycle whose count fetch succeeded
\* and parsed ends with error_count = 0.
C12_CountFailureCounted ==
  [][\A t \in TaskIds :
       /\ CountFetchFails(t) =>
            /\ engine'[t].error_count = engine[t].error_count + 1
            /\ engine'[t].last_count = engine[t].last_count
            /\ engine'[t].backoff_seconds = engine[t].backoff_seconds
       /\ CycleSucceeds(t) => engine'[t].error_count = 0]_vars

\* the list fetch of task t has failed and the cycle ends in this step
ListFetchFails(t) ==
  /\ \/ engine[t].pc = "list_done" /\ engine[t].resp # "ok"
     \/ engine[t].pc = "fetch_list"
  /\ engine'[t].pc = "steady_sleep"

\* C13: a cycle whose list fetch fails (in transport, by a non-2xx status or
\* by a body that does not parse) ends with error_count greater than it was
\* when the cycle began.
C13_ListFailureCounted ==
  [][\A t \in TaskIds :
       ListFetchFails(t) => engine'[t].error_count > hist[t].ec0]_vars

\* the new_notification events among the events of a cycle, in order
Surfaced(events) == SelectSeq(events, LAMBDA ev : ev[1] = "new_notification")

\* C14: the list is fetched only with unread > last_count > 0, and a cycle
\* that fetched a list of N notifications emits exactly
\* min(unread - last_count, N) new_notification events, for the first that
\* many entries of the list in list order.
C14_DeltaBounded ==
  [][\A t \in TaskIds :
       /\ engine'[t].pc \in {"fetch_list", "list_wait", "list_done"} =>
            engine'[t].unread > engine'[t].last_count /\ engine'[t].last_count > 0
       /\ (engine[t].pc = "list_done" /\ engine[t].resp = "ok"
             /\ engine'[t].pc = "steady_sleep") =>
            LET delta == engine[t].unread - engine[t].last_count
                n == Len(engine[t].list)
                k == IF delta <= n THEN delta ELSE n
                new == Surfaced(hist'[t].events)
            IN /\ Len(new) = k
               /\ \A i \in 1..k : new[i][2] = engine[t].list[i]
               /\ Surfaced(hist[t].events) = <<>>]_vars

\* a cycle that found the unread count grown from 1 to 3 and a list of two
\* notifications has emitted both, newest first, after the count event
C14_Witness ==
  \E t \in TaskIds :
    /\ engine[t].pc = "steady_sleep"
    /\ hist[t].outcome = "list_ok"
    /\ hist[t].events = <<<<"notification_count_updated", 3>>,
                          <<"new_notification", 2>>, <<"new_notification", 1>>>>

\* C15: a cycle whose count poll succeeded with last_count = 0 or
\* unread <= last_count fetches no list: it emits the
\* notification_count_updated event and nothing else and goes to the 30 s
\* sleep; no new_notification event is emitted outside a list fetch.
C15_NoListWithoutGrowth ==
  [][\A t \in TaskIds :
       /\ (engine[t].pc = "count_done" /\ engine[t].resp = "ok"
             /\ engine'[t].pc \notin {"count_done", "dead"}
             /\ (engine[t].last_count = 0 \/ engine[t].unread <= engine[t].last_count)) =>
            /\ engine'[t].pc = "steady_sleep"
            /\ engine'[t].header = <<>>
            /\ hist[t].events = <<>>
            /\ hist'[t].events = <<<<"notification_count_updated", engine[t].unread>>>>
       /\ Len(Surfaced(hist'[t].events)) > Len(Surfaced(hist[t].events)) =>
            engine[t].pc = "list_done"]_vars

\* the first successful poll of a loop found 3 unread notifications and
\* emitted the count event only
C15_Witness ==
  \E t \in TaskIds :
    /\ engine[t].pc = "steady_sleep"
    /\ hist[t].outcome = "ok"
    /\ engine[t].consecutive_success = 1
    /\ engine[t].backoff_seconds = 10
    /\ engine[t].last_count = 3
    /\ hist[t].events = <<<<"notification_count_updated", 3>>>>

\* the loop of task t is between two ticks
AtTickBoundary(e) == e.pc \in {"tick", "idle_sleep", "backoff_sleep", "steady_sleep"}

\* C16: between ticks last_count is the unread count of the latest count
\* poll that succeeded and parsed (0 before the first); it is assigned at the
\* end of a cycle whose count poll succeeded, also when the list fetch of
\* that cycle failed, and no other step of the loop changes it.
C16_CursorIsLastSeen ==
  [][\A t \in TaskIds :
       /\ AtTickBoundary(engine'[t]) => engine'[t].last_count = hist'[t].seen
       /\ CycleSucceeds(t) => engine'[t].last_count = engine[t].unread
       /\ (engine[t].pc # "dead" /\ engine'[t].pc # "dead"
             /\ engine'[t].last_count # engine[t].last_count) => CycleSucceeds(t)]_vars

\* a cycle that saw the count grow to 3 has moved last_count to 3 although
\* its list fetch failed
C16_Witness ==
  \E t \in TaskIds :
    /\ engine[t].pc = "steady_sleep"
    /\ hist[t].outcome = "list_failed"
    /\ hist[t].events = <<<<"notification_count_updated", 3>>>>
    /\ engine[t].last_count = 3
    /\ hist[t].seen = 3

C18_EventualRetry ==
  \A t \in TaskIds :
    (engine[t].pc # "dead" /\ token # NoToken) ~> engine[t].pc = "count_wait"

\* a count request is in flight after seven backoff sleeps in a row, every
\* poll before it having failed
C18_Witness ==
  \E t \in TaskIds :
    /\ engine[t].pc = "count_wait"
    /\ token # NoToken
    /\ hist[t].streak
    /\ hist[t].rounds = 7
    /\ engine[t].backoff_seconds = 300

\* C19: a loop has at most one request in flight, and that only while it
\* awaits the answer; it comes to the top of the loop only from a sleep that
\* has elapsed (or as a new task), with no request in flight, and it starts a
\* cycle only from there.
C19_CyclesSequential ==
  [][\A t \in TaskIds :
       /\ hist'[t].inflight \in {0, 1}
       /\ hist'[t].inflight = 1 <=> engine'[t].pc \in {"count_wait", "list_wait"}
       /\ (engine'[t].pc = "tick" /\ engine[t].pc # "tick") =>
            /\ engine[t].pc \in {"idle_sleep", "backoff_sleep", "steady_sleep", "dead"}
            /\ engine'[t].sleep = 0
            /\ hist'[t].inflight = 0
       /\ (engine'[t].pc = "fetch_count" /\ engine[t].pc # "fetch_count") =>
            engine[t].pc = "tick"
       /\ (engine'[t].pc \in {"count_wait", "list_wait"} /\ engine'[t].pc # engine[t].pc) =>
            hist[t].inflight = 0]_vars

\* the list request of a cycle is in flight, the count request of the same
\* cycle having been answered
C19_Witness ==
  \E t \in TaskIds :
    /\ engine[t].pc = "list_wait"
    /\ hist[t].inflight = 1
    /\ hist[t].events = <<<<"notification_count_updated", 3>>>>
    /\ engine[t].last_count = 1

\* the loop of task t is inside a poll cycle
InCycle(e) == e.pc \in {"fetch_count", "count_wait", "count_done",
                        "fetch_list", "list_wait", "list_done"}

\* C20: a tick that attempts the count poll leaves the cycle only into the
\* 30 s sleep, whether the poll succeeded, failed and was counted, or failed
\* for want of a token, and whatever error_count is; the next tick follows
\* that sleep.
C20_SteadyCadence ==
  [][\A t \in TaskIds :
       /\ (InCycle(engine[t]) /\ ~InCycle(engine'[t]) /\ engine'[t].pc # "dead") =>
            /\ engine'[t].pc = "steady_sleep"
            /\ engine'[t].sleep = 30
       /\ (engine[t].pc = "steady_sleep" /\ engine'[t].pc \notin {"steady_sleep", "dead"}) =>
            /\ engine[t].sleep = 30
            /\ engine'[t].pc = "tick"
       /\ (~InCycle(engine[t]) /\ InCycle(engine'[t])) =>
            /\ engine[t].pc = "tick"
            /\ engine[t].error_count <= 5]_vars

\* the sixth failed poll in a row is followed by the 30 s sleep like the
\* five before it, the delay standing at 20 s
C20_Witness ==
  \E t \in TaskIds :
    /\ engine[t].pc = "steady_sleep"
    /\ engine[t].sleep = 30
    /\ hist[t].outcome = "malformed"
    /\ engine[t].error_count = 6
    /\ engine[t].backoff_seconds = 20

\* C21: an authenticated operation goes on the wire only in a step whose
\* read of its credential store found a token, and then with the header
\* "Bearer " + that token; a foreground command, a gateway request or upload,
\* and the count and list fetches that find no token return the
\* Unauthenticated error in that step, without sending.
C21_FailFast ==
  [][/\ \A c \in Callers :
          /\ (caller[c].pc # "cmd_wait" /\ caller'[c].pc = "cmd_wait") =>
               /\ token # NoToken
               /\ caller'[c].req.header = <<"Bearer ", token>>
          /\ (caller[c].pc # "gw_wait" /\ caller'[c].pc = "gw_wait") =>
               /\ gateway.token # NoToken
               /\ caller'[c].req.header = <<"Bearer ", gateway.token>>
          /\ (caller[c].pc = "hdr_read" /\ token = NoToken /\ caller'[c] # caller[c]) =>
               /\ caller'[c].pc = "hdr_ret"
               /\ caller'[c].res = [ok |-> FALSE, val |-> <<CommandAuthErrorText>>]
          /\ (caller[c].pc = "hdr_ret" /\ ~caller[c].res.ok /\ caller'[c] # caller[c]) =>
               caller'[c].pc = "idle"
          /\ (caller[c].pc = "gw_read" /\ gateway.token = NoToken /\ caller'[c] # caller[c]) =>
               /\ caller'[c].pc = "gw_ret"
               /\ caller'[c].res = [ok |-> FALSE, val |-> <<AuthErrorText>>]
     /\ \A t \in TaskIds :
          /\ (engine[t].pc \notin {"count_wait", "list_wait"}
                /\ engine'[t].pc \in {"count_wait", "list_wait"}) =>
               /\ token # NoToken
               /\ engine'[t].header = <<"Bearer ", token>>
          /\ (engine[t].pc \in {"fetch_count", "fetch_list"} /\ token = NoToken
                /\ engine'[t] # engine[t]) =>
               /\ engine'[t].pc \in {"steady_sleep", "dead"}
               /\ hist'[t].outcome \in {"unauthenticated", "list_unauthenticated"}]_vars

\* with both stores empty, the count fetch, a gateway request and a
\* foreground command have each returned Unauthenticated and nothing is in
\* flight
C21_Witness ==
  /\ token = NoToken
  /\ gateway.token = NoToken
  /\ \E t \in TaskIds : engine[t].pc = "steady_sleep" /\ hist[t].outcome = "unauthenticated"
  /\ caller[3].pc = "gw_ret" /\ caller[3].res = [ok |-> FALSE, val |-> <<AuthErrorText>>]
  /\ caller[2].pc = "hdr_ret" /\ caller[2].res = [ok |-> FALSE, val |-> <<CommandAuthErrorText>>]

\* C22: once a login has completed (and the store has not been cleared
\* since), every authenticated read finds the token: the header read of a
\* foreground command returns a header, a gateway request goes out instead
\* of returning Unauthenticated, the polling loop's token check does not send
\* it to the idle sleep, and its fetches go out.
C22_LoginVisibleToAllReads ==
  [][lastSet # NoToken =>
       /\ \A c \in Callers :
            /\ (caller[c].pc = "hdr_read" /\ caller'[c] # caller[c]) => caller'[c].res.ok
            /\ (caller[c].pc = "gw_read" /\ caller'[c] # caller[c]) => caller'[c].pc = "gw_wait"
       /\ \A t \in TaskIds :
            /\ (engine[t].pc = "tick" /\ engine'[t] # engine[t]) =>
                 engine'[t].pc # "idle_sleep"
            /\ (engine[t].pc \in {"fetch_count", "fetch_list"} /\ engine'[t] # engine[t]) =>
                 engine'[t].pc \in {"count_wait", "list_wait", "dead"}]_vars

\* C23: a request of the gateway whose response arrived with a readable
\* body returns Ok(body) when the status is 200..299 and Err(body) for every
\* other status, the body untouched, whatever the method, the path and the
\* body are.
C23_ClassifiedByStatus ==
  \A c \in Callers :
    (caller[c].pc = "gw_ret" /\ caller[c].req.answer.kind = "answered") =>
      LET a == caller[c].req.answer
      IN IF a.status \in 200..299
           THEN caller[c].res = [ok |-> TRUE, val |-> <<a.body>>]
           ELSE caller[c].res = [ok |-> FALSE, val |-> <<a.body>>]

\* a DELETE answered 300 with a body that reads like a transport failure
\* has returned Err(body)
C23_Witness ==
  \E c \in Callers :
    /\ caller[c].pc = "gw_ret"
    /\ caller[c].req.method = "DELETE"
    /\ caller[c].req.answer = [kind |-> "answered", status |-> 300, body |-> EchoBody]
    /\ caller[c].res = [ok |-> FALSE, val |-> <<EchoBody>>]

\* C24: the error a gateway request returns for a non-2xx response is, as
\* a value, never the error it returns when send() fails, whatever the body
\* of the response is.
C24_TransportDistinctFromRemote ==
  \A c \in Callers :
    (/\ caller[c].pc = "gw_ret"
     /\ caller[c].req.answer.kind = "answered"
     /\ caller[c].req.answer.status \notin 200..299) =>
      Text(caller[c].res.val) # Text(SendError.val)

\* C25: when login has stored and is about to return, after a 2xx
\* response whose body parsed to (token, role), the store holds exactly that
\* token and the value returned is Ok((token, role)) with the same token.
C25_LoginStoresAndReturns ==
  \A c \in Callers :
    caller[c].pc = "login_ret" =>
      /\ token = caller[c].tok
      /\ caller[c].res = [ok |-> TRUE, val |-> <<caller[c].tok, caller[c].role>>]
      /\ caller[c].res.val[1] = token

\* a second login, answered with token 2 and role "viewer" while token 1 was
\* stored, has replaced it and is returning (2, "viewer")
C25_Witness ==
  \E c \in Callers :
    /\ caller[c].pc = "login_ret"
    /\ lastSet = 1
    /\ token = 2
    /\ caller[c].res = [ok |-> TRUE, val |-> <<2, "viewer">>]

\* C26: a header read that finds token t in its store yields Ok of exactly
\* "Bearer " followed by t: the command-side read from the store login
\* writes, the internal read (here the gateway's) from the store it is
\* given, each whatever the other store holds.
C26_HeaderIsBearerToken ==
  \A c \in Callers :
    /\ (caller[c].pc = "hdr_ret" /\ token # NoToken) =>
         caller[c].res = [ok |-> TRUE, val |-> <<"Bearer ", token>>]
    /\ caller[c].pc = "gw_wait" =>
         /\ gateway.token # NoToken
         /\ caller[c].req.header = <<"Bearer ", gateway.token>>

\* the command-side read has returned "Bearer 2" while a gateway request
\* carries "Bearer 1"
C26_Witness ==
  /\ token = 2
  /\ gateway.token = 1
  /\ \E c \in Callers :
       caller[c].pc = "hdr_ret" /\ caller[c].res = [ok |-> TRUE, val |-> <<"Bearer ", 2>>]
  /\ \E c \in Callers :
       caller[c].pc = "gw_wait" /\ caller[c].req.header = <<"Bearer ", 1>>

\* C27: while a polling task sleeps or has a request in flight it owns
\* neither the token lock nor the handle lock.
C27_NoLockAcrossSuspension ==
  \A t \in TaskIds :
    engine[t].pc \in Suspended =>
      /\ tokenLock # TaskOwner(t)
      /\ handleLock # TaskOwner(t)

\* with the list request of the loop in flight, a second login has taken
\* the token lock
C27_Witness ==
  /\ \E t \in TaskIds : engine[t].pc = "list_wait"
  /\ \E c \in Callers : tokenLock = c /\ caller[c].pc = "login_store"

\* C28: no step of a polling task changes the stored token, and a step
\* that ends a task (abort() reaching it in a sleep or with a request in
\* flight, or the runtime dropping it) leaves the token as it was and the
\* token lock not owned by the task.
C28_EngineOnlyReads ==
  [][\A t \in TaskIds :
       /\ engine'[t] # engine[t] => token' = token
       /\ (engine[t].pc # "dead" /\ engine'[t].pc = "dead") =>
            /\ token' = token
            /\ tokenLock' # TaskOwner(t)
            /\ (tokenLock = NoOwner => tokenLock' = NoOwner)]_vars

\* stop() has just aborted the task whose handle it took; the token the
\* latest login stored, 2, is still there and the token lock is free
C28_Witness ==
  \E c \in Callers :
    /\ caller[c].pc = "stop_ret"
    /\ caller[c].task # NoTask
    /\ engine[caller[c].task].pc = "dead"
    /\ token = 2
    /\ lastSet = 2
    /\ tokenLock = NoOwner

\* C29: a request does not stay in flight forever: the count fetch of a
\* polling task whose request the backend never answers ends, and the task
\* reaches its next tick.
C29_SilentFetchEnds ==
  \A t \in TaskIds : (engine[t].pc = "count_wait") ~> (engine[t].pc = "tick")

\* C30: every request in flight (login, a foreground command, a gateway
\* request, the count and list fetches) was sent to the configured
\* api_base_url followed by its relative path, also when the environment
\* overrides the default base.
C30_ConfiguredBaseEverywhere ==
  \A r \in InFlight : r.url = gateway.api_base_url \o r.path

\* C31: a polling task that idles while the store holds a token leaves its
\* 10 s sleep for the token check, the check sends it on to the poll, and in
\* the end its count request is in flight.
C31_LoginWakesIdleEngine ==
  /\ [][\A t \in TaskIds :
          /\ (engine[t].pc = "idle_sleep" /\ engine'[t] # engine[t]) =>
               /\ engine[t].sleep = 10
               /\ engine'[t].pc = "tick"
          /\ (engine[t].pc = "tick" /\ token # NoToken /\ engine'[t] # engine[t]) =>
               engine'[t].pc # "idle_sleep"]_vars
  /\ \A t \in TaskIds :
       (engine[t].pc = "idle_sleep" /\ token # NoToken) ~> (engine[t].pc = "count_wait")

\* a login has completed while the loop was in its idle sleep
C31_Witness ==
  /\ token # NoToken
  /\ lastSet = token
  /\ \A c \in Callers : caller[c].pc = "idle"
  /\ \E t \in TaskIds : engine[t].pc = "idle_sleep" /\ hist[t].outcome = "idle"

\* C32: whenever a polling task is at the top of its loop or in one of its
\* three sleeps, error_count is 0..6, backoff_seconds is one of 10, 20, 40,
\* 80, 160, 300, and consecutive_success is 0..2.
C32_CounterRanges ==
  \A t \in TaskIds :
    AtTickBoundary(engine[t]) =>
      /\ engine[t].error_count \in 0..6
      /\ engine[t].backoff_seconds \in {10, 20, 40, 80, 160, 300}
      /\ engine[t].consecutive_success \in 0..2

\* all three at their largest: the sixth failure in a row after two
\* successful cycles, the delay at its cap
C32_Witness ==
  \E t \in TaskIds :
    /\ engine[t].pc = "tick"
    /\ engine[t].error_count = 6
    /\ engine[t].backoff_seconds = 300
    /\ engine[t].consecutive_success = 2

\* the counters of the backoff state of a task
BackoffState(e) == <<e.error_count, e.backoff_seconds, e.consecutive_success>>

\* C33: a tick that finds no token goes to the idle sleep whatever
\* error_count is, and neither it nor the idle sleep changes error_count,
\* the delay or consecutive_success; a backoff sleep ends at the top of the
\* loop, not in the 30 s sleep, and the tick after it goes to the count
\* fetch if a token is present and to the idle sleep if not.
C33_TokenCheckedFirst ==
  [][\A t \in TaskIds :
       /\ (engine[t].pc = "tick" /\ token = NoToken /\ engine'[t] # engine[t]) =>
            /\ engine'[t].pc = "idle_sleep"
            /\ BackoffState(engine'[t]) = BackoffState(engine[t])
       /\ (engine[t].pc = "idle_sleep" /\ engine'[t] # engine[t]) =>
            /\ engine'[t].pc = "tick"
            /\ BackoffState(engine'[t]) = BackoffState(engine[t])
       /\ (engine[t].pc = "backoff_sleep" /\ engine'[t] # engine[t]) =>
            /\ engine'[t].pc = "tick"
            /\ engine'[t].error_count = 0
       /\ (engine[t].pc = "tick" /\ hist[t].outcome = "backoff" /\ engine'[t] # engine[t]) =>
            engine'[t].pc = IF token # NoToken THEN "fetch_count" ELSE "idle_sleep"
       /\ (engine[t].pc = "fetch_count" /\ engine'[t].pc = "count_wait") =>
            token # NoToken]_vars

\* the token went away with six errors counted: the loop idles, the backoff
\* round has not run and the counters stand as they were
C33_Witness ==
  \E t \in TaskIds :
    /\ token = NoToken
    /\ engine[t].pc = "idle_sleep"
    /\ engine[t].error_count = 6
    /\ engine[t].backoff_seconds = 20

\* C34: the step that handles a count response that succeeded and parsed
\* makes notification_count_updated, with the unread count of that response,
\* the first and only event of the cycle; the list request goes out after
\* it, every later event of the cycle is a new_notification, and the cycle
\* ends with that one count event still first.  A cycle whose count fetch
\* failed, for want of a token included, ends without any event.
C34_CountEventOnceAndFirst ==
  [][\A t \in TaskIds :
       /\ (engine[t].pc = "count_done" /\ engine[t].resp = "ok" /\ engine'[t] # engine[t]) =>
            /\ hist[t].events = <<>>
            /\ hist'[t].events = << <<"notification_count_updated", engine[t].unread>> >>
       /\ (engine[t].pc = "fetch_list" /\ engine'[t].pc = "list_wait") =>
            hist[t].events = << <<"notification_count_updated", engine[t].unread>> >>
       /\ (engine[t].pc = "list_done" /\ engine'[t] # engine[t]) =>
            /\ hist'[t].events[1] = <<"notification_count_updated", engine[t].unread>>
            /\ \A i \in 2..Len(hist'[t].events) : hist'[t].events[i][1] = "new_notification"
       /\ (CountFetchFails(t) \/ (engine[t].pc = "fetch_count" /\ engine'[t].pc = "steady_sleep")) =>
            hist'[t].events = <<>>]_vars

\* a cycle has ended with the count event for 3 unread first and the two
\* new_notification events after it
C34_Witness ==
  \E t \in TaskIds :
    /\ engine[t].pc = "steady_sleep"
    /\ hist[t].outcome = "list_ok"
    /\ Len(hist[t].events) = 3
    /\ hist[t].events[1] = <<"notification_count_updated", 3>>
    /\ hist[t].events[2][1] = "new_notification"
    /\ hist[t].events[3][1] = "new_notification"

\* the callers whose own request is in flight
Awaiting == {c \in Callers :
               caller[c].pc \in {"login_wait", "cmd_wait", "gw_wait",
                                 "rv_user_wait", "rv_list_wait"}}

\* C35: a caller whose own request is in flight holds neither the token
\* lock of the store login writes nor a lock of the gateway's store.
C35_NoLockDuringRequest ==
  \A c \in Awaiting :
    /\ tokenLock # c
    /\ gateway.outer # c
    /\ gateway.inner # c

\* C36: no step takes a token out of a store that holds one, neither the
\* store login writes nor the gateway's; and once a login has completed no
\* tick of a polling task ends in the idle sleep.
C36_TokenNeverRemoved ==
  [][/\ token # NoToken => token' # NoToken
     /\ gateway.token # NoToken => gateway'.token # NoToken
     /\ lastSet # NoToken =>
          \A t \in TaskIds :
            (engine[t].pc = "tick" /\ engine'[t] # engine[t]) => engine'[t].pc # "idle_sleep"]_vars

\* a later login is about to return while the loop has its count request in
\* flight, and set_token has filled the gateway's store
C36_Witness ==
  /\ lastSet # NoToken
  /\ token # NoToken
  /\ gateway.token # NoToken
  /\ caller[1].pc = "login_ret"
  /\ \E t \in TaskIds : engine[t].pc = "count_wait"

\* C37: the step in which a login returns without having locked the store
\* (its request failed, was answered with a non-2xx status, or with a 2xx
\* body that does not parse) leaves the token, the token lock and the record
\* of the last completed login as they were.
C37_FailedLoginChangesNothing ==
  [][\A c \in Callers :
       (caller[c].pc = "login_wait" /\ caller'[c].pc = "idle") =>
         /\ token' = token
         /\ tokenLock' = tokenLock
         /\ lastSet' = lastSet]_vars

\* token 2 is stored by an earlier login and another login is waiting for
\* its answer, which may be any of the three failures
C37_Witness ==
  /\ token = 2
  /\ lastSet = 2
  /\ tokenLock = NoOwner
  /\ \E c \in Callers : caller[c].pc = "login_wait"

\* the positions of a caller inside manual_refresh_notifications
RefreshPcs == {"mr_count_wait", "mr_fetch_list", "mr_list_wait"}

\* C38: a step of manual_refresh_notifications changes nothing of any
\* polling task (last_count, error_count, backoff_seconds,
\* consecutive_success and the rest of its record), nor the poll handle, nor
\* the token.
C38_RefreshLeavesEngineAlone ==
  [][\A c \in Callers :
       (caller'[c] # caller[c] /\ (caller[c].pc \in RefreshPcs \/ caller'[c].pc \in RefreshPcs)) =>
         /\ engine' = engine
         /\ hist' = hist
         /\ task_handle' = task_handle
         /\ token' = token]_vars

\* a refresh has seen 3 unread and goes on to the list while the loop, whose
\* last_count is 1, sleeps between two cycles
C38_Witness ==
  /\ \E c \in Callers :
       /\ caller[c].pc = "mr_fetch_list"
       /\ caller[c].res.val = << <<"notification_count_updated", 3>> >>
  /\ \E t \in TaskIds :
       /\ engine[t].pc = "steady_sleep"
       /\ engine[t].last_count = 1
       /\ task_handle = t

\* the locks caller c owns
HoldsLock(c) ==
  \/ tokenLock = c
  \/ handleLock = c
  \/ gateway.outer = c
  \/ gateway.inner = c

\* the next step of whatever operation caller c is in
CallerStep(c) ==
  \/ LoginStep(c)
  \/ StartStep(c)
  \/ StopStep(c)
  \/ CommandStep(c)
  \/ SetTokenStep(c)
  \/ GatewayStep(c)

\* C39: no interleaving of login, header reads, gateway requests,
\* ApiClient::set_token, the loop's token check, start() and stop()
\* deadlocks: whoever owns a lock (a caller or the loop) can always take its
\* next step, so nobody holds one lock while waiting for another that is
\* taken (in particular not the poll-handle lock while waiting for a
\* credential lock), and the inner token lock of the gateway's store is only
\* ever owned by the owner of the outer lock.
C39_NoDeadlock ==
  /\ \A c \in Callers : HoldsLock(c) => ENABLED CallerStep(c)
  /\ \A t \in TaskIds : tokenLock = TaskOwner(t) => ENABLED LoopStep(t)
  /\ gateway.inner # NoOwner => gateway.inner = gateway.outer

\* the three locks are owned at once by three operations while the loop
\* runs: login is about to store the token, stop() is about to take the
\* handle, and a gateway request is about to read the gateway's token
C39_Witness ==
  /\ tokenLock = 1 /\ caller[1].pc = "login_store"
  /\ handleLock = 2 /\ caller[2].pc = "stop_take"
  /\ gateway.outer = 3 /\ caller[3].pc = "gw_read"
  /\ task_handle # NoTask
  /\ ~Dead(task_handle)

====
